---- MODULE Spec2Model ----
(***************************************************************************)
(* Model of the Telegram channel analyzer (src/app.py): one /analyze       *)
(* request, from channel resolution to the response, with the correlation  *)
(* of discussion-group messages to channel posts.                          *)
(*                                                                         *)
(* Texts are sequences of one-character strings, so that the regular       *)
(* expressions, strip() and slicing of the source are computed on          *)
(* characters.  Cyrillic literals of the source are transliterated letter  *)
(* by letter (same length).  The Python value None is modelled by 0 in     *)
(* integer-valued optional fields (ids and dates of the platform are       *)
(* positive) and by the empty sequence for an absent media type name.      *)
(***************************************************************************)
EXTENDS Integers, Sequences, FiniteSets, TLC

None == 0

(***************************************************************************)
(* Bounds of the model.                                                    *)
(***************************************************************************)
MaxPostId == 2
MaxMsgId == 2
BurstLen == 11

(***************************************************************************)
(* Constants of the program and of the modelled environment.               *)
(***************************************************************************)
ChannelId == 7
OtherChannelId == 2
GroupId == 4
FetchLimit == 500
MaxTextLen == 500
MaxComments == 10

(***************************************************************************)
(* Characters and integer <-> text conversions.                            *)
(***************************************************************************)
DigitChars == <<"0", "1", "2", "3", "4", "5", "6", "7", "8", "9">>

\* the characters of codes 1 to 255 that \w of line 407 matches, without the
\* digits and "_": the ASCII letters and the letters and numbers of Latin-1
Letters ==
    {"A", "B", "C", "D", "E", "F", "G", "H", "I", "J", "K", "L", "M", "N",
     "O", "P", "Q", "R", "S", "T", "U", "V", "W", "X", "Y", "Z", "a", "b",
     "c", "d", "e", "f", "g", "h", "i", "j", "k", "l", "m", "n", "o", "p",
     "q", "r", "s", "t", "u", "v", "w", "x", "y", "z", "ª", "²", "³", "µ",
     "¹", "º", "¼", "½", "¾", "À", "Á", "Â", "Ã", "Ä", "Å", "Æ", "Ç", "È",
     "É", "Ê", "Ë", "Ì", "Í", "Î", "Ï", "Ð", "Ñ", "Ò", "Ó", "Ô", "Õ", "Ö",
     "Ø", "Ù", "Ú", "Û", "Ü", "Ý", "Þ", "ß", "à", "á", "â", "ã", "ä", "å",
     "æ", "ç", "è", "é", "ê", "ë", "ì", "í", "î", "ï", "ð", "ñ", "ò", "ó",
     "ô", "õ", "ö", "ø", "ù", "ú", "û", "ü", "ý", "þ", "ÿ"}

\* the characters of codes 1 to 255 that str.strip() removes and
\* str.isspace() accepts: space, \t, \n, \r, \f, and the codes 11, 28 to 31,
\* 133 and 160
Whitespace ==
    {"\t", "\n", "", "\f", "\r", "", "", "", "", " ", "", " "}

Digits == {DigitChars[k] : k \in 1..10}

IsDigit(c) == c \in Digits

DigitVal(c) == (CHOOSE k \in 1..10 : DigitChars[k] = c) - 1

IsWord(c) == c \in Letters \/ c = "_" \/ IsDigit(c)

Max(S) == CHOOSE x \in S : \A y \in S : y <= x

Min(S) == CHOOSE x \in S : \A y \in S : x <= y

RECURSIVE IntToText(_)
IntToText(n) ==
    IF n < 10 THEN <<DigitChars[n + 1]>>
    ELSE IntToText(n \div 10) \o <<DigitChars[(n % 10) + 1]>>

RECURSIVE TextToInt(_)
TextToInt(ds) ==
    IF ds = <<>> THEN 0
    ELSE 10 * TextToInt(SubSeq(ds, 1, Len(ds) - 1)) + DigitVal(ds[Len(ds)])

(***************************************************************************)
(* str.strip(): leading and trailing whitespace removed.                   *)
(***************************************************************************)
\* the first index from i on, and the last index up to j, of a character
\* that is not whitespace (Len(s) + 1 and 0 when there is none)
RECURSIVE FirstKept(_, _)
FirstKept(s, i) ==
    IF i > Len(s) THEN i
    ELSE IF s[i] \in Whitespace THEN FirstKept(s, i + 1) ELSE i

RECURSIVE LastKept(_, _)
LastKept(s, j) ==
    IF j < 1 THEN j
    ELSE IF s[j] \in Whitespace THEN LastKept(s, j - 1) ELSE j

Strip(s) ==
    IF FirstKept(s, 1) > Len(s) THEN <<>>
    ELSE SubSeq(s, FirstKept(s, 1), LastKept(s, Len(s)))

Slice(s, n) == SubSeq(s, 1, IF Len(s) < n THEN Len(s) ELSE n)

(***************************************************************************)
(* re.search of the four patterns of extract_post_id_from_text.  Each      *)
(* pattern is a prefix followed by the group (\d+); XGroupAt(s, i, ..) is  *)
(* the index where the group starts when the pattern matches at i, else 0. *)
(***************************************************************************)
StartsWith(s, i, lit) ==
    /\ i + Len(lit) - 1 <= Len(s)
    /\ \A k \in 1..Len(lit) : s[i + k - 1] = lit[k]

DigitAt(s, j) == j >= 1 /\ j <= Len(s) /\ IsDigit(s[j])

\* last index of the longest run of digits starting at j (j - 1 when none)
RECURSIVE DigitRunEnd(_, _)
DigitRunEnd(s, j) ==
    IF j <= Len(s) /\ IsDigit(s[j]) THEN DigitRunEnd(s, j + 1) ELSE j - 1

\* last index of the longest run of \w characters starting at j
RECURSIVE WordRunEnd(_, _)
WordRunEnd(s, j) ==
    IF j <= Len(s) /\ IsWord(s[j]) THEN WordRunEnd(s, j + 1) ELSE j - 1

LiteralGroupAt(s, i, lit) ==
    IF StartsWith(s, i, lit) /\ DigitAt(s, i + Len(lit)) THEN i + Len(lit) ELSE 0

TmePrefix == <<"t", ".", "m", "e", "/">>

PrivateLinkPrefix == TmePrefix \o <<"c", "/">>

\* rf't\.me/c/{channel_id}/(\d+)'
PrivateLinkGroupAt(s, i, channel_id) ==
    IF StartsWith(s, i, PrivateLinkPrefix)
    THEN LiteralGroupAt(s, i + Len(PrivateLinkPrefix), IntToText(channel_id) \o <<"/">>)
    ELSE 0

\* rf't\.me/\w+/(\d+)': \w+ is greedy and the next character must be "/"
PublicLinkGroupAt(s, i) ==
    LET w == WordRunEnd(s, i + Len(TmePrefix))
    IN  IF /\ StartsWith(s, i, TmePrefix)
           /\ w >= i + Len(TmePrefix)
           /\ w + 1 <= Len(s)
           /\ s[w + 1] = "/"
           /\ DigitAt(s, w + 2)
        THEN w + 2 ELSE 0

\* rf'/{channel_id}/(\d+)'
PathGroupAt(s, i, channel_id) ==
    IF StartsWith(s, i, <<"/">>)
    THEN LiteralGroupAt(s, i + 1, IntToText(channel_id) \o <<"/">>)
    ELSE 0

\* rf'#(\d+)'
HashGroupAt(s, i) == LiteralGroupAt(s, i, <<"#">>)

PatternGroupAt(p, s, i, channel_id) ==
    CASE p = 1 -> PrivateLinkGroupAt(s, i, channel_id)
      [] p = 2 -> PublicLinkGroupAt(s, i)
      [] p = 3 -> PathGroupAt(s, i, channel_id)
      [] p = 4 -> HashGroupAt(s, i)

\* the character every match of pattern p starts with: each of the four
\* patterns begins with a literal
PatternHead == <<"t", "t", "/", "#">>

\* the characters of a text
Chars(s) == {s[i] : i \in 1..Len(s)}

\* re.search(pattern, text): the leftmost match; its group(1) start, or 0.
\* A text without the first character of the pattern has no match
SearchGroup(p, s, channel_id) ==
    IF PatternHead[p] \notin Chars(s) THEN 0
    ELSE LET hits == {i \in 1..Len(s) :
                         s[i] = PatternHead[p] /\ PatternGroupAt(p, s, i, channel_id) # 0}
         IN  IF hits = {} THEN 0 ELSE PatternGroupAt(p, s, Min(hits), channel_id)

\* the loop of lines 412-418 from pattern p on: the group(1) start of the
\* first pattern that matches, or 0
RECURSIVE FirstGroupFrom(_, _, _)
FirstGroupFrom(p, text, channel_id) ==
    IF p > 4 THEN 0
    ELSE LET g == SearchGroup(p, text, channel_id)
         IN  IF g # 0 THEN g ELSE FirstGroupFrom(p + 1, text, channel_id)

\* extract_post_id_from_text: the first pattern, in order, that matches
extract_post_id_from_text(text, channel_id) ==
    IF text = <<>> THEN None
    ELSE LET g == FirstGroupFrom(1, text, channel_id)
         IN  IF g = 0 THEN None
             ELSE TextToInt(SubSeq(text, g, DigitRunEnd(text, g)))

(***************************************************************************)
(* Sender entities known to the messaging client.  get_entity(sender_id)   *)
(* returns a user, a channel or a chat, or raises.                         *)
(***************************************************************************)
AnnId == 11
BobId == 12
GhostId == 13

NoName == <<>>

Entity(kind, first_name, last_name, username, title) ==
    [kind |-> kind, first_name |-> first_name, last_name |-> last_name,
     username |-> username, title |-> title]

Resolvable == {AnnId, BobId, ChannelId}

get_entity(sender_id) ==
    CASE sender_id = AnnId -> Entity("user", <<"Ann">>, NoName, NoName, NoName)
      [] sender_id = BobId -> Entity("user", <<"Bob">>, <<"Lee">>, <<"bob">>, NoName)
      [] sender_id = ChannelId -> Entity("channel", NoName, NoName, <<"chan">>, <<"News">>)

Unknown == <<"Unknown">>

\* lines 326-339: the display name of the sender, "Unknown" when the
\* message has no sender or the lookup raises
author_name(sender_id) ==
    IF sender_id = None \/ sender_id \notin Resolvable THEN Unknown
    ELSE LET sender == get_entity(sender_id)
         IN  IF sender.kind = "user"
             THEN IF sender.last_name # NoName
                  THEN sender.first_name \o <<" ">> \o sender.last_name
                  ELSE sender.first_name
             ELSE IF sender.username # NoName
                  THEN <<"@">> \o sender.username
                  ELSE sender.title

(***************************************************************************)
(* get_media_type: the label of a media object, decided by substrings of   *)
(* its type name.  A type name is the sequence of its characters; <<>> is  *)
(* None.                                                                   *)
(***************************************************************************)
NoMedia == <<>>

\* word in name, of two Python strings
Contains(name, word) == \E k \in 1..Len(name) : StartsWith(name, k, word)

get_media_type(media) ==
    IF media = NoMedia THEN <<"T", "e", "k", "s", "t">>
    ELSE IF Contains(media, <<"P", "h", "o", "t", "o">>) THEN <<"F", "o", "t", "o">>
    ELSE IF Contains(media, <<"V", "i", "d", "e", "o">>) THEN <<"V", "i", "d", "e", "o">>
    ELSE IF Contains(media, <<"D", "o", "c", "u", "m", "e", "n", "t">>)
         THEN <<"D", "o", "k", "u", "m", "e", "n", "t">>
    ELSE IF Contains(media, <<"A", "u", "d", "i", "o">>) THEN <<"A", "u", "d", "i", "o">>
    ELSE IF Contains(media, <<"S", "t", "i", "c", "k", "e", "r">>) THEN <<"S", "t", "i", "k", "e", "r">>
    ELSE IF Contains(media, <<"P", "o", "l", "l">>) THEN <<"O", "p", "r", "o", "s">>
    ELSE IF Contains(media, <<"W", "e", "b", "P", "a", "g", "e">>)
         THEN <<"V", "e", "b", "-", "s", "t", "r", "a", "n", "i", "c", "a">>
    ELSE IF Contains(media, <<"G", "a", "m", "e">>) THEN <<"I", "g", "r", "a">>
    ELSE <<"M", "e", "d", "i", "a">>

\* line 360 without its list of texts
UninformativeTextsNone == {}

\* the two texts that line 360 rejects
UninformativeTexts ==
    {<<"[", "M", "e", "d", "i", "a", "]">>,
     <<"[", "K", "o", "m", "m", "e", "n", "t", "a", "r", "i", "j", "]">>}

IsSpace(s) == s # <<>> /\ \A k \in 1..Len(s) : s[k] \in Whitespace

(***************************************************************************)
(* A fetched message.  date is in seconds (the platform's dates are whole  *)
(* seconds in UTC, which strftime prints digit for digit); None is a       *)
(* message without a date.  mid in a comment records the message the       *)
(* comment was made from; CommentInfo itself holds author, date and text.  *)
(***************************************************************************)
NoFwd == [channel_id |-> None, channel_post |-> None]

Fwd(channel_id, channel_post) == [channel_id |-> channel_id, channel_post |-> channel_post]

CommentInfo(author, date, text, mid) ==
    [author |-> author, date |-> date, text |-> text, mid |-> mid]

\* process_comment_message without the handler of lines 338-339: the error
\* of the sender lookup reaches line 370 and the comment is lost
process_comment_messageLookupRaises(message) ==
    LET stripped == Strip(message.message)
        text == IF stripped = <<>> /\ message.media # NoMedia
                THEN <<"[">> \o get_media_type(message.media) \o <<"]">>
                ELSE stripped
    IN  IF message.sender_id # None /\ message.sender_id \notin Resolvable THEN <<>>
        ELSE IF message.date = None THEN <<>>
        ELSE IF text = <<>> THEN <<>>
        ELSE IF IsSpace(text) \/ text \in UninformativeTexts THEN <<>>
        ELSE <<CommentInfo(author_name(message.sender_id), message.date,
                           Slice(text, MaxTextLen), message.id)>>

\* process_comment_message: <<>> is the return value None, <<c>> a comment
process_comment_message(message) ==
    LET stripped == Strip(message.message)
        text == IF stripped = <<>> /\ message.media # NoMedia
                THEN <<"[">> \o get_media_type(message.media) \o <<"]">>
                ELSE stripped
    IN  IF message.date = None THEN <<>>
        ELSE IF text = <<>> THEN <<>>
        ELSE IF IsSpace(text) \/ text \in UninformativeTexts THEN <<>>
        ELSE <<CommentInfo(author_name(message.sender_id), message.date,
                           Slice(text, MaxTextLen), message.id)>>

(***************************************************************************)
(* find_comments_for_post: which of the three methods, tried in order,     *)
(* selects the message for post_id (0 when none does).                     *)
(***************************************************************************)
ReplyMatches(message, post_id) ==
    message.reply_to # None /\ message.reply_to = post_id

\* the forward test without the comparison of the channel id (line 449)
ForwardMatchesAnyChannel(message, post_id, channel_id) ==
    /\ message.fwd_from # NoFwd
    /\ message.fwd_from.channel_post = post_id

ForwardMatches(message, post_id, channel_id) ==
    /\ message.fwd_from # NoFwd
    /\ message.fwd_from.channel_id = channel_id
    /\ message.fwd_from.channel_post = post_id

TextMatches(message, post_id, channel_id) ==
    /\ message.message # <<>>
    /\ extract_post_id_from_text(message.message, channel_id) = post_id

MatchedBy(message, post_id, channel_id) ==
    IF ReplyMatches(message, post_id) THEN 1
    ELSE IF ForwardMatches(message, post_id, channel_id) THEN 2
    ELSE IF TextMatches(message, post_id, channel_id) THEN 3
    ELSE 0

\* lines 431-433: the message id was seen earlier in this scan
AlreadyProcessedNever(message, processed_message_ids) == FALSE

AlreadyProcessed(message, processed_message_ids) ==
    message.id \in processed_message_ids

\* the scan without the handlers of lines 370 and 467: the error of a message
\* without a date ends the scan, and line 494 returns no comment at all
RECURSIVE FindFromUnguarded(_, _, _, _, _, _)
FindFromUnguarded(discussion_messages, k, processed_message_ids, comments, post_id, channel_id) ==
    IF k > Len(discussion_messages) THEN comments
    ELSE LET message == discussion_messages[k]
         IN  IF message.id \in processed_message_ids
             THEN FindFromUnguarded(discussion_messages, k + 1, processed_message_ids,
                                    comments, post_id, channel_id)
             ELSE IF MatchedBy(message, post_id, channel_id) # 0 /\ message.date = None
             THEN <<>>
             ELSE FindFromUnguarded(discussion_messages, k + 1,
                                    processed_message_ids \cup {message.id},
                                    IF MatchedBy(message, post_id, channel_id) # 0
                                    THEN comments \o process_comment_message(message)
                                    ELSE comments,
                                    post_id, channel_id)

\* the loop of lines 429-469 from index k on
RECURSIVE FindFrom(_, _, _, _, _, _)
FindFrom(discussion_messages, k, processed_message_ids, comments, post_id, channel_id) ==
    IF k > Len(discussion_messages) THEN comments
    ELSE LET message == discussion_messages[k]
         IN  IF AlreadyProcessed(message, processed_message_ids)
             THEN FindFrom(discussion_messages, k + 1, processed_message_ids,
                           comments, post_id, channel_id)
             ELSE FindFrom(discussion_messages, k + 1,
                           processed_message_ids \cup {message.id},
                           IF MatchedBy(message, post_id, channel_id) # 0
                           THEN comments \o process_comment_message(message)
                           ELSE comments,
                           post_id, channel_id)

find_comments_for_post(discussion_messages, post_id, channel_id) ==
    FindFrom(discussion_messages, 1, {}, <<>>, post_id, channel_id)

get_post_comments(discussion_group_id, post_id, channel_id, discussion_messages) ==
    IF discussion_group_id = None THEN <<>>
    ELSE find_comments_for_post(discussion_messages, post_id, channel_id)

(***************************************************************************)
(* The environment of one run: the channel's posts and the messages of the *)
(* linked discussion group, both as the client returns them (newest        *)
(* first).  Message ids grow with time, so the date follows the id.        *)
(***************************************************************************)
FloodSeconds == 30

DateOf(id) == 100 * id

Post(id, date, service) == [id |-> id, date |-> date, service |-> service]

\* what the channel holds under one post id
PostKinds == {"absent", "post", "service", "nodate"}

PostOf(id, kind) ==
    CASE kind = "post" -> Post(id, DateOf(id), FALSE)
      [] kind = "service" -> Post(id, DateOf(id), TRUE)
      [] kind = "nodate" -> Post(id, None, FALSE)

\* the posts of ids hi, hi - 1, .., 1 that exist, newest first
RECURSIVE PostsFrom(_, _)
PostsFrom(kinds, hi) ==
    IF hi = 0 THEN <<>>
    ELSE (IF kinds[hi] = "absent" THEN <<>> ELSE <<PostOf(hi, kinds[hi])>>)
         \o PostsFrom(kinds, hi - 1)

ChannelPostLists == {PostsFrom(kinds, MaxPostId) : kinds \in [1..MaxPostId -> PostKinds]}

Message(id, reply_to, fwd_from, message, sender_id, media, date, service) ==
    [id |-> id, reply_to |-> reply_to, fwd_from |-> fwd_from, message |-> message,
     sender_id |-> sender_id, media |-> media, date |-> date, service |-> service]

TxtHi == <<"h", "i">>
TxtHash1 == <<"#", "1">>
TxtHash2 == <<"#", "2">>
\* "see t.me/c/<this channel>/2"
TxtLink2 ==
    <<"s", "e", "e", " ">> \o TmePrefix \o <<"c", "/">> \o IntToText(ChannelId) \o <<"/", "2">>
\* "t.me/c/<other channel>/1": post 1 of another channel
TxtOtherLink == TmePrefix \o <<"c", "/">> \o IntToText(OtherChannelId) \o <<"/", "1">>
TxtBlank == <<" ">>
MessageMedia == <<"M", "e", "s", "s", "a", "g", "e", "M", "e", "d", "i", "a">>
Photo == MessageMedia \o <<"P", "h", "o", "t", "o">>
CopyId == 9

\* the messages the discussion group may hold under one message id
MessagesOf(id) ==
    {Message(id, 1, NoFwd, TxtHi, None, NoMedia, DateOf(id), FALSE),
     Message(id, 1, NoFwd, TxtHash2, AnnId, NoMedia, DateOf(id), FALSE),
     Message(id, 2, Fwd(ChannelId, 1), TxtHi, BobId, NoMedia, DateOf(id), FALSE),
     Message(id, CopyId, NoFwd, TxtHi, AnnId, NoMedia, DateOf(id), FALSE),
     Message(id, None, Fwd(ChannelId, 1), TxtHi, ChannelId, NoMedia, DateOf(id), FALSE),
     Message(id, None, Fwd(OtherChannelId, 2), TxtHash1, GhostId, NoMedia, DateOf(id), FALSE),
     Message(id, None, NoFwd, TxtLink2, GhostId, NoMedia, DateOf(id), FALSE),
     Message(id, None, NoFwd, TxtOtherLink, AnnId, NoMedia, DateOf(id), FALSE),
     Message(id, 2, NoFwd, <<>>, AnnId, Photo, DateOf(id), FALSE),
     Message(id, 1, NoFwd, TxtBlank, AnnId, NoMedia, DateOf(id), FALSE),
     Message(id, 1, NoFwd, TxtHi, AnnId, NoMedia, None, FALSE),
     Message(id, 1, NoFwd, TxtHi, None, NoMedia, DateOf(id), TRUE)}

\* the messages that the model also delivers twice
RepeatedOf(id) ==
    {Message(id, 1, NoFwd, TxtHi, None, NoMedia, DateOf(id), FALSE),
     Message(id, None, Fwd(ChannelId, 1), TxtHi, ChannelId, NoMedia, DateOf(id), FALSE),
     Message(id, None, NoFwd, TxtLink2, GhostId, NoMedia, DateOf(id), FALSE)}

\* the messages of ids hi, .., 1 that exist, newest first
RECURSIVE MessagesFrom(_, _)
MessagesFrom(pick, hi) ==
    IF hi = 0 THEN <<>>
    ELSE pick[hi] \o MessagesFrom(pick, hi - 1)

\* the lists, newest first, that hold at most one message of pool per id
ListsOf(pool) ==
    {MessagesFrom(pick, MaxMsgId) :
        pick \in {f \in [1..MaxMsgId -> {<<>>} \cup {<<m>> : m \in pool}] :
                    \A id \in 1..MaxMsgId : f[id] # <<>> => f[id][1].id = id}}

\* overlapping pages: the message at d is delivered twice
Repeat(l, d) == SubSeq(l, 1, d) \o SubSeq(l, d, Len(l))

\* n users reply to post 1, the newest reply first
Burst(n) ==
    [k \in 1..n |->
        Message(n + 1 - k, 1, NoFwd, TxtHi, None, NoMedia, DateOf(n + 1 - k), FALSE)]

\* one user replies to post 1 with a text of n letters
LongReply(n) ==
    <<Message(1, 1, NoFwd, [k \in 1..n |-> "a"], AnnId, NoMedia, DateOf(1), FALSE)>>

\* replies whose text is as long as the limit of line 367, and one longer
LongTextLists == {LongReply(MaxTextLen), LongReply(MaxTextLen + 1)}

Geo == MessageMedia \o <<"G", "e", "o">>
WebPage == MessageMedia \o <<"W", "e", "b", "P", "a", "g", "e">>
TxtMediaLabel == <<"[", "M", "e", "d", "i", "a", "]">>

TxtTabNewline == <<"\t", "\n">>

\* replies to post 1, newest first: the text "[Media]", a location without
\* text, a photo under a blank text, a text of a tab and a newline without
\* media
MediaOnlyReplies ==
    <<Message(4, 1, NoFwd, TxtMediaLabel, BobId, NoMedia, DateOf(4), FALSE),
      Message(3, 1, NoFwd, <<>>, AnnId, Geo, DateOf(3), FALSE),
      Message(2, 1, NoFwd, TxtBlank, BobId, Photo, DateOf(2), FALSE),
      Message(1, 1, NoFwd, TxtTabNewline, AnnId, NoMedia, DateOf(1), FALSE)>>

\* "t.me/Café/1", and "hi" between a tab and a no-break space
TxtPublicLink1 == TmePrefix \o <<"C", "a", "f", "é", "/", "1">>
TxtHiInSpace == <<"\t", "h", "i", " ">>

\* newest first: a link to post 1 by the name of the channel, a preview of
\* a web page without text in reply to post 1, a reply to post 1 whose text
\* has whitespace around it
OddTextReplies ==
    <<Message(3, None, NoFwd, TxtPublicLink1, AnnId, NoMedia, DateOf(3), FALSE),
      Message(2, 1, NoFwd, <<>>, BobId, WebPage, DateOf(2), FALSE),
      Message(1, 1, NoFwd, TxtHiInSpace, GhostId, NoMedia, DateOf(1), FALSE)>>

MediaOnlyLists == {MediaOnlyReplies, OddTextReplies}

GroupMessageLists ==
    ListsOf(UNION {MessagesOf(id) : id \in 1..MaxMsgId})
    \cup {Repeat(ld[1], ld[2]) :
            ld \in {x \in ListsOf(UNION {RepeatedOf(id) : id \in 1..MaxMsgId}) \X (1..MaxMsgId) :
                        x[2] <= Len(x[1])}}
    \cup {Burst(BurstLen)}
    \cup LongTextLists
    \cup MediaOnlyLists

(***************************************************************************)
(* The run of one /analyze request.                                        *)
(***************************************************************************)
VARIABLES
    pc,                   \* the step of analyze_channel that is next
    include_comments,     \* request.include_comments
    linked_chat_id,       \* full_chat.linked_chat_id of the channel
    discussion_group_id,  \* channel_info['discussion_group_id']
    messages,             \* the posts returned by get_channel_messages
    discussion_messages,  \* the preloaded messages of the discussion group
    i,                    \* the index of the post loop (line 542)
    posts_data,           \* the dict of line 531, in insertion order
    response,             \* the HTTP response of the request
    fetches,              \* calls made on the discussion group so far
    flood,                \* seconds of the FloodWaitError raised in the run
    chain_runs,           \* per message id, the runs of lines 437-460 on it
    telegram_client,      \* the global of line 52: a client, or None
    alive,                \* the clients that are connected
    created,              \* the clients that have connected so far
    assigned,             \* the clients lines 212 and 640 have put in the global
    rpc,                  \* per request, its place in get_telegram_client
    got                   \* per request, the client it holds (line 181 or 214)

\* the variables of the shared client handle
clientvars == <<telegram_client, alive, created, assigned, rpc, got>>

\* the variables of the run of a request
runvars ==
    <<pc, include_comments, linked_chat_id, discussion_group_id, messages,
      discussion_messages, i, posts_data, response, fetches, flood, chain_runs>>

\* the variables of the run that get_telegram_client leaves alone
restvars ==
    <<include_comments, linked_chat_id, discussion_group_id, messages,
      discussion_messages, i, posts_data, fetches, flood, chain_runs>>

vars == <<runvars, clientvars>>

\* the requests that may be in get_telegram_client at a time
NumRequests == 2

Requests == 1..NumRequests

NoResponse == [status |-> 0, retry_after |-> 0, posts |-> <<>>]

Response(status, retry_after, posts) ==
    [status |-> status, retry_after |-> retry_after, posts |-> posts]

\* the clients that connect before the model stops
MaxClients == 2

\* the request whose run is followed through analyze_channel
Followed == 1

\* lifespan, lines 638-643, has run init_telegram_client: it returned and the
\* global is set ("ok"), it raised before its client connected ("failed"), or
\* it raised at lines 183-188 with its client connected ("orphan"), which
\* lines 193-206 do not disconnect
StartUp(outcome) ==
    /\ rpc = [r \in Requests |-> "idle"]
    /\ got = [r \in Requests |-> None]
    /\ telegram_client = IF outcome = "ok" THEN 1 ELSE None
    /\ alive = IF outcome = "failed" THEN {} ELSE {1}
    /\ created = IF outcome = "failed" THEN 0 ELSE 1
    /\ assigned = IF outcome = "ok" THEN {1} ELSE {}

\* the requests whose client has not connected yet (lines 163-185)
Starting == {r \in Requests : rpc[r] = "init"}

\* the requests that wait at the await of line 212
Initialising == {r \in Requests : rpc[r] \in {"init", "started"}}

\* what get_telegram_client means to the followed request: with a client its
\* run goes on at line 699, and the exception of init_telegram_client is
\* answered with 500 at lines 754-759
ClientOutcome(r, outcome) ==
    IF r = Followed
    THEN /\ pc' = IF outcome = "has" THEN "find_channel" ELSE "done"
         /\ response' = IF outcome = "has" THEN response
                         ELSE Response(500, 0, <<>>)
    ELSE UNCHANGED <<pc, response>>

\* line 698 and line 211, then line 214 when the handle is present and
\* connected; the request is suspended at the await of line 212 otherwise
CheckClient(r) ==
    /\ rpc[r] = "idle"
    /\ r = Followed => pc = "get_client"
    /\ IF telegram_client = None \/ telegram_client \notin alive
       THEN /\ created + Cardinality(Starting) < MaxClients
            /\ rpc' = [rpc EXCEPT ![r] = "init"]
            /\ got' = got
            /\ UNCHANGED <<pc, response>>
       ELSE /\ rpc' = [rpc EXCEPT ![r] = "has"]
            /\ got' = [got EXCEPT ![r] = telegram_client]
            /\ ClientOutcome(r, "has")
    /\ UNCHANGED <<telegram_client, alive, created, assigned, restvars>>

\* lines 181-185: client.start has connected the new client, which only the
\* local variable of init_telegram_client refers to
ClientConnects(r) ==
    /\ rpc[r] = "init"
    /\ created' = created + 1
    /\ alive' = alive \cup {created + 1}
    /\ got' = [got EXCEPT ![r] = created + 1]
    /\ rpc' = [rpc EXCEPT ![r] = "started"]
    /\ UNCHANGED <<telegram_client, assigned, runvars>>

\* init_telegram_client returns its client (line 191): the assignment of
\* line 212 and the return of line 214
InitReturns(r) ==
    /\ rpc[r] = "started"
    /\ telegram_client' = got[r]
    /\ assigned' = assigned \cup {got[r]}
    /\ rpc' = [rpc EXCEPT ![r] = "has"]
    /\ ClientOutcome(r, "has")
    /\ UNCHANGED <<alive, created, got, restvars>>

\* init_telegram_client raises (lines 193-206): the global is left as it
\* was, and a client that had connected stays connected with nothing
\* referring to it
InitRaises(r) ==
    /\ rpc[r] \in {"init", "started"}
    /\ rpc' = [rpc EXCEPT ![r] = "failed"]
    /\ got' = [got EXCEPT ![r] = None]
    /\ ClientOutcome(r, "failed")
    /\ UNCHANGED <<telegram_client, alive, created, assigned, restvars>>

Init ==
    /\ pc = "get_client"
    /\ include_comments \in BOOLEAN
    /\ linked_chat_id \in {None, GroupId}
    /\ discussion_group_id = None
    /\ messages = <<>>
    /\ discussion_messages = <<>>
    /\ i = 1
    /\ posts_data = <<>>
    /\ response = NoResponse
    /\ fetches = 0
    /\ flood = 0
    /\ chain_runs = <<>>
    /\ \E outcome \in {"ok", "failed", "orphan"} : StartUp(outcome)

\* find_channel: the entity is found, or the failure becomes an HTTP error
FindChannel ==
    /\ pc = "find_channel"
    /\ \E outcome \in {"ok", "flood", "private", "not_channel", "error"} :
        /\ pc' = IF outcome = "ok" THEN "get_channel_info" ELSE "done"
        /\ response' = CASE outcome = "ok" -> response
                         [] outcome = "private" -> Response(403, 0, <<>>)
                         [] outcome = "not_channel" -> Response(400, 0, <<>>)
                         [] OTHER -> Response(404, 0, <<>>)
        /\ flood' = IF outcome = "flood" THEN FloodSeconds ELSE flood
    /\ UNCHANGED <<include_comments, linked_chat_id, discussion_group_id, messages,
                   discussion_messages, i, posts_data, fetches>>
    /\ UNCHANGED <<chain_runs, clientvars>>

\* the id of the full chat itself taken for the linked chat id
DiscussionGroupIdOfChat(outcome, linked) ==
    IF outcome = "ok" THEN ChannelId ELSE None

\* lines 287-297: the linked chat id when the full-channel request succeeds
DiscussionGroupId(outcome, linked) ==
    IF outcome = "ok" /\ linked # None THEN linked ELSE None

\* get_channel_info: a failure of the request is logged and the run goes on
GetChannelInfo ==
    /\ pc = "get_channel_info"
    /\ \E outcome \in {"ok", "flood", "error"} :
        /\ discussion_group_id' = DiscussionGroupId(outcome, linked_chat_id)
        /\ flood' = IF outcome = "flood" THEN FloodSeconds ELSE flood
    /\ pc' = "get_channel_messages"
    /\ UNCHANGED <<include_comments, linked_chat_id, messages, discussion_messages,
                   i, posts_data, response, fetches>>
    /\ UNCHANGED <<chain_runs, clientvars>>

\* get_channel_messages and lines 711-724
GetChannelMessages ==
    /\ pc = "get_channel_messages"
    /\ \E outcome \in {"ok", "flood", "error"}, all_messages \in ChannelPostLists :
        /\ outcome # "ok" => all_messages = <<>>
        /\ messages' = all_messages
        /\ pc' = IF outcome = "ok" /\ all_messages # <<>> THEN "preload" ELSE "done"
        /\ response' = CASE outcome = "flood" -> Response(429, FloodSeconds, <<>>)
                         [] outcome = "error" -> Response(500, 0, <<>>)
                         [] all_messages = <<>> -> Response(200, 0, <<>>)
                         [] OTHER -> response
        /\ flood' = IF outcome = "flood" THEN FloodSeconds ELSE flood
    /\ UNCHANGED <<include_comments, linked_chat_id, discussion_group_id,
                   discussion_messages, i, posts_data, fetches>>
    /\ UNCHANGED <<chain_runs, clientvars>>

NonService(l) == SelectSeq(l, LAMBDA m : ~m.service)

\* get_all_discussion_messages: entity is the outcome of get_entity, group
\* the messages of the group and delivered how many of them iter_messages
\* yields before it ends or raises
get_all_discussion_messages(group_id, entity, group, delivered) ==
    IF group_id = None \/ entity # "ok" THEN <<>>
    ELSE NonService(Slice(Slice(group, FetchLimit), delivered))

\* line 538
ShouldPreload(include, group_id) == include /\ group_id # None

\* no message of the list has been through the chain of lines 437-460
NoChainRuns(discussion) ==
    [id \in {discussion[k].id : k \in 1..Len(discussion)} |-> 0]

\* lines 536-540, the discussion group is read
FetchDiscussion ==
    /\ pc = "preload"
    /\ ShouldPreload(include_comments, discussion_group_id)
    /\ \E entity \in {"ok", "flood", "error"} :
       \E iter \in IF entity = "ok" THEN {"ok", "flood", "error"} ELSE {"ok"} :
       \E group \in IF entity = "ok" THEN GroupMessageLists ELSE {<<>>} :
       \E delivered \in IF iter = "ok" THEN {Len(group)} ELSE 0..Len(group) :
        /\ discussion_messages' =
               get_all_discussion_messages(discussion_group_id, entity, group, delivered)
        /\ flood' = IF entity = "flood" \/ iter = "flood" THEN FloodSeconds ELSE flood
    /\ chain_runs' = NoChainRuns(discussion_messages')
    /\ fetches' = fetches + 1
    /\ pc' = "loop"
    /\ UNCHANGED <<include_comments, linked_chat_id, discussion_group_id, messages,
                   i, posts_data, response>>
    /\ UNCHANGED clientvars

\* lines 536-540, nothing is read
SkipDiscussion ==
    /\ pc = "preload"
    /\ ~ShouldPreload(include_comments, discussion_group_id)
    /\ pc' = "loop"
    /\ UNCHANGED <<include_comments, linked_chat_id, discussion_group_id, messages,
                   discussion_messages, i, posts_data, response, fetches, flood>>
    /\ UNCHANGED <<chain_runs, clientvars>>

\* posts_data[key] = value of an insertion-ordered dict
DictPut(d, key, value) ==
    IF \E k \in 1..Len(d) : d[k].key = key
    THEN [k \in 1..Len(d) |-> IF d[k].key = key THEN value ELSE d[k]]
    ELSE Append(d, value)

\* lines 590-595
CommentsOf(msg, include, group_id, discussion, channel_id) ==
    IF include /\ group_id # None /\ discussion # <<>>
    THEN get_post_comments(group_id, msg.id, channel_id, discussion)
    ELSE <<>>

\* the record without the assignment of line 595
PostRecordStaleCount(msg, comments_list) ==
    [key |-> IntToText(msg.id),
     post_info |-> [date |-> msg.date, comments |-> 0],
     comments |-> comments_list]

\* lines 604-618; of PostInfo the date and the comments count are kept
PostRecord(msg, comments_list) ==
    [key |-> IntToText(msg.id),
     post_info |-> [date |-> msg.date, comments |-> Len(comments_list)],
     comments |-> comments_list]

\* one iteration of the loop of line 542 over reversed(messages)
ProcessPostStep(data, msg, include, group_id, discussion, channel_id) ==
    IF msg.service THEN data
    ELSE IF msg.date = None THEN data
    ELSE DictPut(data, IntToText(msg.id),
                 PostRecord(msg, CommentsOf(msg, include, group_id, discussion, channel_id)))

\* the chain of lines 437-460 runs on every message id once when the post is
\* given to get_post_comments (lines 593-594), the copies of an id being
\* skipped at line 432
ChainRunsAfterPost(runs, msg, include, group_id, discussion) ==
    IF ~msg.service /\ msg.date # None /\ include /\ group_id # None /\ discussion # <<>>
    THEN [id \in DOMAIN runs |-> runs[id] + 1]
    ELSE runs

\* one turn of the loop of line 542 over reversed(messages)
ProcessPost ==
    /\ pc = "loop"
    /\ i <= Len(messages)
    /\ chain_runs' = ChainRunsAfterPost(chain_runs, messages[Len(messages) + 1 - i],
                                        include_comments, discussion_group_id,
                                        discussion_messages)
    /\ posts_data' = ProcessPostStep(posts_data, messages[Len(messages) + 1 - i],
                                     include_comments, discussion_group_id,
                                     discussion_messages, ChannelId)
    /\ i' = i + 1
    /\ UNCHANGED <<pc, include_comments, linked_chat_id, discussion_group_id, messages,
                   discussion_messages, response, fetches, flood>>
    /\ UNCHANGED clientvars

\* lines 726-750
Respond ==
    /\ pc = "loop"
    /\ i > Len(messages)
    /\ response' = Response(200, 0, posts_data)
    /\ pc' = "done"
    /\ UNCHANGED <<include_comments, linked_chat_id, discussion_group_id, messages,
                   discussion_messages, i, posts_data, fetches, flood>>
    /\ UNCHANGED <<chain_runs, clientvars>>

\* the loop of lines 542-625 from its k-th iteration on
RECURSIVE RunLoop(_, _, _, _, _, _, _)
RunLoop(data, msgs, k, include, group_id, discussion, channel_id) ==
    IF k > Len(msgs) THEN data
    ELSE RunLoop(ProcessPostStep(data, msgs[Len(msgs) + 1 - k], include, group_id,
                                 discussion, channel_id),
                 msgs, k + 1, include, group_id, discussion, channel_id)

Next ==
    \/ CheckClient(Followed)
    \/ ClientConnects(Followed)
    \/ InitReturns(Followed)
    \/ InitRaises(Followed)
    \/ FindChannel
    \/ GetChannelInfo
    \/ GetChannelMessages
    \/ FetchDiscussion
    \/ SkipDiscussion
    \/ ProcessPost
    \/ Respond

Spec == Init /\ [][Next]_vars

(***************************************************************************)
(* The shared client handle: requests served on one event loop call        *)
(* get_telegram_client (line 698) and give the loop to one another at the  *)
(* awaits of lines 183-188, inside the await of line 212.                  *)
(***************************************************************************)
\* the variables of a run of the analysis that has not got its client yet
RunIdle ==
    /\ pc = "get_client"
    /\ include_comments = TRUE
    /\ linked_chat_id = GroupId
    /\ discussion_group_id = None
    /\ messages = <<>>
    /\ discussion_messages = <<>>
    /\ i = 1
    /\ posts_data = <<>>
    /\ response = NoResponse
    /\ fetches = 0
    /\ flood = 0
    /\ chain_runs = <<>>

\* the requests arrive after any of the outcomes of the start-up
InitClient ==
    /\ RunIdle
    /\ \E outcome \in {"ok", "failed", "orphan"} : StartUp(outcome)

\* a request other than the followed one is answered, and the next one of
\* the same caller may come
Leave(r) ==
    /\ r # Followed
    /\ rpc[r] \in {"has", "failed"}
    /\ rpc' = [rpc EXCEPT ![r] = "idle"]
    /\ got' = [got EXCEPT ![r] = None]
    /\ UNCHANGED <<telegram_client, alive, created, assigned, runvars>>

\* the connection of a client is lost: is_connected() of line 211 is False
Disconnected ==
    /\ \E c \in alive : alive' = alive \ {c}
    /\ UNCHANGED <<telegram_client, created, assigned, rpc, got, runvars>>

NextClient ==
    \/ \E r \in Requests : CheckClient(r)
    \/ \E r \in Requests : ClientConnects(r)
    \/ \E r \in Requests : InitReturns(r)
    \/ \E r \in Requests : InitRaises(r)
    \/ \E r \in Requests : Leave(r)
    \/ Disconnected
    \/ FindChannel
    \/ GetChannelInfo
    \/ GetChannelMessages
    \/ FetchDiscussion
    \/ SkipDiscussion
    \/ ProcessPost
    \/ Respond

SpecClient == InitClient /\ [][NextClient]_vars

(***************************************************************************)
(* Properties.                                                             *)
(***************************************************************************)
Records == {posts_data[k] : k \in 1..Len(posts_data)}

Bucket(record) == {record.comments[k] : k \in 1..Len(record.comments)}

Preloaded == {discussion_messages[k] : k \in 1..Len(discussion_messages)}

\* the preloaded message a comment was made from
SourceOf(comment) == CHOOSE m \in Preloaded : m.id = comment.mid

PostIdOf(record) == TextToInt(record.key)

Finished == pc = "done" /\ response.status = 200

\* C1: a discussion message is in the comment bucket of at most one post
\* (the first signal, in the order reply, forward, text, decides alone).
C1_SingleAttribution ==
    \A r1, r2 \in Records :
        r1.key # r2.key =>
            \A c1 \in Bucket(r1), c2 \in Bucket(r2) : c1.mid # c2.mid

\* C2: a discussion message posted as the channel itself is in no bucket.
C2_ChannelAuthorExcluded ==
    \A r \in Records : \A c \in Bucket(r) : SourceOf(c).sender_id # ChannelId

\* C3: a bucket holds at most one comment per discussion message id, also
\* when the preloaded list holds a message twice.
C3_OnePerMessageId ==
    \A r \in Records :
        \A j, k \in 1..Len(r.comments) :
            j # k => r.comments[j].mid # r.comments[k].mid

C3_Witness ==
    /\ Finished
    /\ \E j, k \in 1..Len(discussion_messages) :
        /\ j # k
        /\ discussion_messages[j].id = discussion_messages[k].id
        /\ \E r \in Records : \E c \in Bucket(r) : c.mid = discussion_messages[j].id

\* C4: a bucket never holds more than the configured maximum of comments.
C4_BucketCapped ==
    \A r \in Records : Len(r.comments) <= MaxComments

\* C5: the comments of a bucket are in ascending order of timestamp.
C5_AscendingByDate ==
    \A r \in Records :
        \A j, k \in 1..Len(r.comments) :
            j < k => r.comments[j].date <= r.comments[k].date

\* C6: a message is in the bucket of post P only if its reply reference is
\* P, or its forward origin is (this channel, P), or the post id extracted
\* from its text is P.
C6_OnlySignalled ==
    Finished =>
        \A r \in Records : \A c \in Bucket(r) :
            LET m == SourceOf(c)
                P == PostIdOf(r)
            IN  \/ m.reply_to = P
                \/ m.fwd_from = Fwd(ChannelId, P)
                \/ extract_post_id_from_text(m.message, ChannelId) = P

\* a post has its record, a message forwarded from the post is in its
\* bucket, and a reply to the forwarded copy is preloaded and is not
C6_Witness ==
    /\ Finished
    /\ \E r \in Records :
        /\ PostIdOf(r) = 1
        /\ \E c \in Bucket(r) : SourceOf(c).fwd_from = Fwd(ChannelId, 1)
        /\ \E m \in Preloaded :
            /\ m.reply_to = CopyId
            /\ \A c \in Bucket(r) : c.mid # m.id

\* C7: the comments count of a post record is the length of its comment list.
C7_CountIsBucketSize ==
    /\ \A r \in Records : r.post_info.comments = Len(r.comments)
    /\ \A k \in 1..Len(response.posts) :
        response.posts[k].post_info.comments = Len(response.posts[k].comments)

C7_Witness ==
    /\ Finished
    /\ \E k \in 1..Len(response.posts) : Len(response.posts[k].comments) = 2

\* C8: when the channel has no linked discussion group, no call is made on
\* a discussion group and every bucket is empty.
C8_NoGroupNoFetch ==
    linked_chat_id = None =>
        /\ fetches = 0
        /\ discussion_messages = <<>>
        /\ \A r \in Records : r.comments = <<>>

C8_Witness ==
    /\ Finished
    /\ linked_chat_id = None
    /\ include_comments
    /\ Len(response.posts) = 2

\* C9: a rate-limit failure raised by a client call during the run reaches
\* the caller as the retryable condition carrying the wait duration.
C9_FloodSurfaced ==
    pc = "done" /\ flood # 0 =>
        response.status = 429 /\ response.retry_after = flood

\* a post or a discussion message whose processing raises: it has no date
Fails(item) == item.date = None

Healthy(l) == SelectSeq(l, LAMBDA item : ~Fails(item))

\* C10: the error of one discussion message or of one post does not end
\* the run: the output is the output of the run without the failing items.
C10_ErrorsIsolated ==
    (/\ Finished
     /\ \/ \E k \in 1..Len(messages) : Fails(messages[k])
        \/ \E m \in Preloaded : Fails(m)) =>
        response.posts = RunLoop(<<>>, Healthy(messages), 1, include_comments,
                                 discussion_group_id, Healthy(discussion_messages),
                                 ChannelId)

\* a post and a matching discussion message fail, and the post the message
\* matches still has a comment of another message
C10_Witness ==
    /\ Finished
    /\ \E k \in 1..Len(messages) : Fails(messages[k])
    /\ \E r \in Records : \E m \in Preloaded :
        /\ Fails(m)
        /\ MatchedBy(m, PostIdOf(r), ChannelId) # 0
        /\ \E c \in Bucket(r) : c.mid < m.id

\* the sender of the message cannot be resolved: the message names no
\* sender, or the lookup of the sender raises
Unresolved(message) ==
    message.sender_id = None \/ message.sender_id \notin Resolvable

\* C11: in the output, a matched message whose sender cannot be resolved is
\* in the bucket with the author "Unknown" and its text as it is (a text the
\* code keeps: not blank, not one line 360 rejects, within the limit).
C11_UnknownAuthorKept ==
    Finished =>
        \A r \in Records : \A m \in Preloaded :
            (/\ Unresolved(m)
             /\ ~Fails(m)
             /\ Strip(m.message) # <<>>
             /\ Strip(m.message) \notin UninformativeTexts
             /\ Len(m.message) <= MaxTextLen)
            => \/ \E c \in Bucket(r) :
                     c.mid = m.id /\ c.author = Unknown /\ c.text = Strip(m.message)
               \/ MatchedBy(m, PostIdOf(r), ChannelId) = 0

\* the lookup of the sender failed for one comment of the output, and
\* another comment has no sender at all
C11_Witness ==
    /\ Finished
    /\ \E r \in Records : \E c \in Bucket(r) :
        /\ SourceOf(c).sender_id = GhostId
        /\ c.author = Unknown
        /\ c.text = SourceOf(c).message
    /\ \E r \in Records : \E c \in Bucket(r) :
        SourceOf(c).sender_id = None /\ c.author = Unknown

\* the text ends with an ellipsis marker: three dots, or the one
\* character of the ellipsis (written "..." as one element)
EndsWithEllipsis(text) ==
    \/ Len(text) >= 1 /\ text[Len(text)] = "..."
    \/ Len(text) >= 3 /\ SubSeq(text, Len(text) - 2, Len(text)) = <<".", ".", ".">>

\* C12: the text of a comment has at most 500 characters; a source text of
\* at most 500 characters is returned as it is after trimming, and a longer
\* one is cut and ends with an ellipsis marker.
C12_CutWithEllipsis ==
    \A r \in Records : \A c \in Bucket(r) :
        LET source == Strip(SourceOf(c).message)
        IN  /\ Len(c.text) <= MaxTextLen
            /\ (source # <<>> /\ Len(source) <= MaxTextLen) => c.text = source
            /\ Len(source) > MaxTextLen => EndsWithEllipsis(c.text)

\* C15: in a run that records posts, every discussion message goes through
\* the chain of lines 437-460 once, whatever the number of posts
C15_SinglePass ==
    (Finished /\ Records # {}) =>
        \A id \in DOMAIN chain_runs : chain_runs[id] = 1

\* C16: while the handle is absent or disconnected at most one request is
\* initialising a client, no connected client that was the global handle is
\* left outside it by a later assignment, and the requests that were given
\* a connected client were given the same one
C16_OneInitialisation ==
    /\ Cardinality(Initialising) <= 1
    /\ (alive \cap assigned) \subseteq {telegram_client}
    /\ \A r1, r2 \in Requests :
           (/\ rpc[r1] = "has" /\ rpc[r2] = "has"
            /\ got[r1] \in alive /\ got[r2] \in alive) => got[r1] = got[r2]

Reversed(l) == [k \in 1..Len(l) |-> l[Len(l) + 1 - k]]

KeysOf(records) == [k \in 1..Len(records) |-> records[k].key]

IdKeysOf(msgs) == [k \in 1..Len(msgs) |-> IntToText(msgs[k].id)]

\* C14 as stated: the output has one record for every post fetched that is
\* not a service message, under the text of the post id, oldest post first
\* when the posts were fetched newest first
C14_OneRecordPerPost ==
    Finished =>
        KeysOf(response.posts)
            = IdKeysOf(Reversed(SelectSeq(messages, LAMBDA msg : ~msg.service)))

RecognisedMedia ==
    {<<"P", "h", "o", "t", "o">>, <<"V", "i", "d", "e", "o">>,
     <<"D", "o", "c", "u", "m", "e", "n", "t">>, <<"A", "u", "d", "i", "o">>,
     <<"S", "t", "i", "c", "k", "e", "r">>, <<"P", "o", "l", "l">>,
     <<"W", "e", "b", "P", "a", "g", "e">>, <<"G", "a", "m", "e">>}

Unrecognised(media) == \A word \in RecognisedMedia : ~Contains(media, word)

MediaLabel(message) == <<"[">> \o get_media_type(message.media) \o <<"]">>

Selected(message, record) ==
    MatchedBy(message, PostIdOf(record), ChannelId) # 0 /\ ~Fails(message)

InBucket(message, record) == \E c \in Bucket(record) : c.mid = message.id

\* C17 as stated: no comment of a returned bucket has an empty or blank
\* text; a selected message with no text and no media is left out of the
\* bucket, a selected message with no text and a media is in it under the
\* label
C17_MediaOnlyKept ==
    Finished =>
        \A r \in Records :
            /\ \A c \in Bucket(r) : c.text # <<>> /\ ~IsSpace(c.text)
            /\ \A m \in Preloaded :
                   (Strip(m.message) = <<>> /\ Selected(m, r)) =>
                       IF m.media = NoMedia
                       THEN ~InBucket(m, r)
                       ELSE \E c \in Bucket(r) : c.mid = m.id /\ c.text = MediaLabel(m)

\* C17 amended: no comment of a returned bucket has an empty or blank text;
\* a selected message with no text is left out of the bucket when it has no
\* media or a
\* media of no recognised type, and is in it under the label when its media
\* is of a recognised type; a selected message whose text is "[Media]" is
\* left out too
C17_RecognisedMediaKept ==
    Finished =>
        \A r \in Records :
            /\ \A c \in Bucket(r) : c.text # <<>> /\ ~IsSpace(c.text)
            /\ \A m \in Preloaded :
                   /\ (Strip(m.message) = <<>> /\ Selected(m, r)) =>
                          IF m.media = NoMedia \/ Unrecognised(m.media)
                          THEN ~InBucket(m, r)
                          ELSE \E c \in Bucket(r) : c.mid = m.id /\ c.text = MediaLabel(m)
                   /\ (Strip(m.message) = TxtMediaLabel /\ Selected(m, r)) => ~InBucket(m, r)

\* a bucket holds the photo under its label and none of the location, the
\* blank message and the text "[Media]" that were selected with it
C17_Witness ==
    /\ Finished
    /\ \E r \in Records :
           /\ \E m \in Preloaded :
                  /\ Selected(m, r) /\ Strip(m.message) = <<>> /\ m.media = Photo
                  /\ \E c \in Bucket(r) : c.mid = m.id /\ c.text = <<"[", "F", "o", "t", "o", "]">>
           /\ \E m \in Preloaded :
                  Selected(m, r) /\ Strip(m.message) = <<>> /\ m.media = Geo /\ ~InBucket(m, r)
           /\ \E m \in Preloaded :
                  Selected(m, r) /\ Strip(m.message) = <<>> /\ m.media = NoMedia /\ ~InBucket(m, r)
           /\ \E m \in Preloaded :
                  Selected(m, r) /\ m.message = TxtMediaLabel /\ ~InBucket(m, r)

====
